---- MODULE Spec2Model ----
(***************************************************************************)
(* Model of packages/cli/src/lib/geminiRunner.ts: the CommandService       *)
(* (loader fan-out, merge by name, frozen catalog) and the prompt runner   *)
(* generateGemini with its restriction pass.                               *)
(***************************************************************************)
EXTENDS Integers, Sequences, FiniteSets, TLC

\* ------------------------------------------------------------------ bounds
\* loaders handed to the constructor; commands the loaders of one
\* loadCommands() call return in total; pushes onto an unfrozen array.
MaxLoaders == 3
MaxCmds == 3
MaxPush == 2
\* structural errors the settings source reports; tool names the settings
\* exclude; characters of the prompt.
MaxErrs == 2
MaxExcl == 2
MaxPrompt == 2
MaxCalls == 2
OverlapLoaders == 2

\* ------------------------------------------------- CommandService: values
Names == {"a", "b"}

\* A SlashCommand object. name is what the Map is keyed on; src says which
\* object it is (metadata.source): the loader that produced it, or 0 for an
\* object a consumer of getCommands() made.
Cmd == [name : Names, src : 0..MaxLoaders]

\* The list of command objects loader i returns for the names ns.
LoaderValue(i, ns) == [p \in 1..Len(ns) |-> [name |-> ns[p], src |-> i]]

Pending == [status |-> "pending", value |-> <<>>]
Fulfilled(v) == [status |-> "fulfilled", value |-> v]
Rejected == [status |-> "rejected", value |-> <<>>]

VARIABLES loaders, commands, frozen, calls, mutation

svars == <<loaders, commands, frozen, calls, mutation>>

\* generateGemini: its arguments, process.env.GEMINI_API_KEY, its position,
\* the settings it loaded, the Config objects built, the calls made on the
\* engine, and how its promise settled.
VARIABLES prompt, interactive, apiKey, pc, settings, configs, engine, result

rvars == <<prompt, interactive, apiKey, pc, settings, configs, engine, result>>

vars == <<svars, rvars>>

\* --------------------------------------------- CommandService: the merge
RECURSIVE Flatten(_, _)
\* allCommands after the loop over results[k..]: the fulfilled values are
\* pushed in results order, a rejected result contributes nothing.
Flatten(results, k) ==
    IF k > Len(results) THEN <<>>
    ELSE (IF results[k].status = "fulfilled" THEN results[k].value ELSE <<>>)
         \o Flatten(results, k + 1)

\* Mutant of MapSet: every command is appended, a seen name is not replaced.
MapSetAppendOnly(m, cmd) == Append(m, cmd)

\* Mutant of MapSet: a name already in the map keeps its first command.
MapSetKeepFirst(m, cmd) ==
    IF \E k \in 1..Len(m) : m[k].name = cmd.name THEN m ELSE Append(m, cmd)

\* Map.prototype.set on an insertion-ordered map held as a sequence.
MapSet(m, cmd) ==
    IF \E k \in 1..Len(m) : m[k].name = cmd.name
    THEN [k \in 1..Len(m) |-> IF m[k].name = cmd.name THEN cmd ELSE m[k]]
    ELSE Append(m, cmd)

RECURSIVE BuildMap(_, _, _)
BuildMap(m, all, k) ==
    IF k > Len(all) THEN m ELSE BuildMap(MapSet(m, all[k]), all, k + 1)

\* Mutant of Merge: the map is built on top of the published catalog.
MergeIntoPublished(results) == BuildMap(commands, Flatten(results, 1), 1)

\* Array.from(commandMap.values()) for the settled results.
Merge(results) == BuildMap(<<>>, Flatten(results, 1), 1)

\* Mutant of ResultIndex: outcomes are collected in the order of settling.
ResultIndexBySettling(i, results) ==
    CHOOSE k \in 1..Len(results) :
        /\ results[k].status = "pending"
        /\ \A j \in 1..(k - 1) : results[j].status # "pending"

\* Promise.allSettled: the slot of the results array that receives the
\* outcome of the promise at index i.
ResultIndex(i, results) == i

\* -------------------------------------------- CommandService: operations
SInit ==
    /\ loaders \in 0..MaxLoaders
    /\ commands = <<>>
    /\ frozen = FALSE
    /\ calls = <<>>
    /\ mutation = "none"

\* The service while only generateGemini runs.
SIdle ==
    /\ loaders = 0
    /\ commands = <<>>
    /\ frozen = FALSE
    /\ calls = <<>>
    /\ mutation = "none"

NewCall(threw) ==
    [pc |-> IF threw = 0 THEN "awaiting" ELSE "rejected",
     threw |-> threw,
     outOfOrder |-> FALSE,
     promises |-> [i \in 1..loaders |-> Pending],
     results |-> [i \in 1..loaders |-> Pending]]

\* How many more commands the loaders of this call may still return.
Room(call) == MaxCmds - Len(Flatten(call.promises, 1))

Finished(c) == calls[c].pc \in {"resolved", "rejected"}

\* loadCommands() up to its await: this.loaders.map(l => l.loadCommands()).
\* threw = t > 0: loader t throws synchronously inside map, so the async
\* function rejects at once; loaders after t are never invoked.
LoadCommands(threw) ==
    /\ \A c \in 1..Len(calls) : Finished(c)
    /\ calls' = <<NewCall(threw)>>
    /\ mutation' = "none"
    /\ UNCHANGED <<loaders, commands, frozen, rvars>>

\* Promise i of call c settles with outcome o. outOfOrder records that some
\* promise settled before one registered ahead of it.
Settle(c, i, o) ==
    /\ c \in 1..Len(calls)
    /\ i \in 1..loaders
    /\ calls[c].promises[i].status = "pending"
    /\ \/ calls[c].pc = "awaiting"
       \/ calls[c].pc = "rejected" /\ i < calls[c].threw
    /\ LET k == ResultIndex(i, calls[c].results)
       IN calls' = [calls EXCEPT
              ![c].promises[i] = o,
              ![c].outOfOrder = @ \/ \E j \in 1..(i - 1) :
                                        calls[c].promises[j].status = "pending",
              ![c].results = IF calls[c].pc = "awaiting"
                             THEN [@ EXCEPT ![k] = o] ELSE @]
    /\ mutation' = "none"
    /\ UNCHANGED <<loaders, commands, frozen, rvars>>

\* The continuation after the await: merge, freeze, publish.
Publish(c) ==
    /\ c \in 1..Len(calls)
    /\ calls[c].pc = "awaiting"
    /\ \A i \in 1..loaders : calls[c].promises[i].status # "pending"
    /\ commands' = Merge(calls[c].results)
    /\ frozen' = TRUE
    /\ calls' = [calls EXCEPT ![c].pc = "resolved"]
    /\ mutation' = "none"
    /\ UNCHANGED <<loaders, rvars>>

\* A consumer calls getCommands().push(cmd) on the returned array.
Push(cmd) ==
    /\ IF frozen
       THEN /\ mutation' = "threw"
            /\ UNCHANGED commands
       ELSE /\ Len(commands) < MaxPush
            /\ mutation' = "pushed"
            /\ commands' = Append(commands, cmd)
    /\ UNCHANGED <<loaders, frozen, calls, rvars>>

\* ------------------------------------------------------- generateGemini
None == [some |-> FALSE, val |-> <<>>]
Some(v) == [some |-> TRUE, val |-> v]

ShellTool == "run_shell_command"
EditTool == "replace"
WriteFileTool == "write_file"
Tools == {ShellTool, EditTool, WriteFileTool, "web_fetch"}
ApprovalModes == {"default", "autoEdit", "yolo"}
USER_SETTINGS_PATH == "~/.gemini/settings.json"

SettingsErrors ==
    {[path |-> "~/.gemini/settings.json", message |-> "Unexpected token"],
     [path |-> ".gemini/settings.json", message |-> "Unexpected end of input"]}
Chars == {" ", "h"}
Prompts == UNION {[1..k -> Chars] : k \in 0..MaxPrompt}
\* settings.merged.model: unset, or a configured model.
SettingsModels == {"", "gemini-2.0-flash"}

NoSettings == [model |-> "", excludeTools |-> None, errors |-> <<>>]
NoResult == [status |-> "pending", value |-> <<>>]

RECURSIVE TrimStart(_)
TrimStart(s) == IF s # <<>> /\ Head(s) = " " THEN TrimStart(Tail(s)) ELSE s
RECURSIVE TrimEnd(_)
TrimEnd(s) ==
    IF s # <<>> /\ s[Len(s)] = " " THEN TrimEnd(SubSeq(s, 1, Len(s) - 1)) ELSE s
\* String.prototype.trim
Trim(s) == TrimEnd(TrimStart(s))

RECURSIVE Join(_, _)
\* Array.prototype.join on a list of lines, each a list of parts.
Join(lines, sep) ==
    IF lines = <<>> THEN <<>>
    ELSE IF Len(lines) = 1 THEN lines[1]
    ELSE lines[1] \o <<sep>> \o Join(Tail(lines), sep)

\* Mutant of SettingsDiagnostic: only the first error is reported.
SettingsDiagnosticFirstOnly(errors) ==
    <<"Erreur dans ", errors[1].path, ": ", errors[1].message>>

\* settings.errors.map(e => `Erreur dans ${e.path}: ${e.message}`).join('\n')
SettingsDiagnostic(errors) ==
    Join([k \in 1..Len(errors) |->
            <<"Erreur dans ", errors[k].path, ": ", errors[k].message>>], "\n")

\* Mutant of AuthType: any defined value counts, the empty string too.
AuthTypeIfDefined(key) == IF key.some THEN Some("USE_GEMINI") ELSE None

\* process.env.GEMINI_API_KEY ? AuthType.USE_GEMINI : undefined
AuthType(key) == IF key.some /\ key.val # "" THEN Some("USE_GEMINI") ELSE None

NoAuthMessage ==
    <<"Aucune methode d'auth. Configure ", USER_SETTINGS_PATH, " ou definis ",
      "GEMINI_API_KEY">>

RECURSIVE Dedupe(_, _)
\* Array.from(new Set(xs)): the first occurrence of each element, in order.
Dedupe(xs, seen) ==
    IF xs = <<>> THEN <<>>
    ELSE IF Head(xs) \in seen THEN Dedupe(Tail(xs), seen)
    ELSE <<Head(xs)>> \o Dedupe(Tail(xs), seen \cup {Head(xs)})

\* settings.merged.excludeTools || []
OrEmpty(opt) == IF opt.some THEN opt.val ELSE <<>>

\* Mutant of RestrictedExcludeTools: the list is not passed through a Set.
RestrictedExcludeToolsNoSet(merged) ==
    OrEmpty(merged.excludeTools) \o <<ShellTool, EditTool, WriteFileTool>>

\* merged.excludeTools of the restriction pass.
RestrictedExcludeTools(merged) ==
    Dedupe(OrEmpty(merged.excludeTools) \o <<ShellTool, EditTool, WriteFileTool>>, {})

\* loadCliConfig: the Config built from merged settings and the CLI args.
LoadCliConfig(merged, model, mode) ==
    [excludeTools |-> OrEmpty(merged.excludeTools),
     model |-> model,
     approvalMode |-> mode,
     initialized |-> 0,
     authRefreshed |-> FALSE]

RIdle ==
    /\ prompt = <<>>
    /\ interactive = FALSE
    /\ apiKey = None
    /\ pc = "idle"
    /\ settings = NoSettings
    /\ configs = <<>>
    /\ engine = <<>>
    /\ result = NoResult

RInit ==
    /\ prompt \in Prompts
    /\ interactive \in BOOLEAN
    /\ apiKey \in {None, Some(""), Some("key")}
    /\ pc = "start"
    /\ settings = NoSettings
    /\ configs = <<>>
    /\ engine = <<>>
    /\ result = NoResult

Throw(message) ==
    /\ pc' = "done"
    /\ result' = [status |-> "rejected", value |-> message]

Return(text) ==
    /\ pc' = "done"
    /\ result' = [status |-> "resolved", value |-> <<text>>]

\* Lines 22-67: load the settings, fail on their errors, resolve the auth
\* type, fail without one, else ask loadCliConfig for the Config.
Start(loaded) ==
    /\ pc = "start"
    /\ settings' = loaded
    /\ IF Len(loaded.errors) > 0
       THEN Throw(SettingsDiagnostic(loaded.errors))
       ELSE IF ~AuthType(apiKey).some
       THEN Throw(NoAuthMessage)
       ELSE pc' = "loadCliConfig" /\ UNCHANGED result
    /\ UNCHANGED <<prompt, interactive, apiKey, configs, engine, svars>>

\* Lines 67-72: the Config arrives (its approval mode is the engine's to
\* decide), validateAuthMethod answers err, then config.initialize() is called.
ConfigLoaded(mode, err) ==
    /\ pc = "loadCliConfig"
    /\ configs' = <<LoadCliConfig(settings,
                       IF settings.model # "" THEN settings.model ELSE "gemini-2.5-pro",
                       mode)>>
    /\ IF err.some
       THEN Throw(err.val) /\ UNCHANGED engine
       ELSE /\ pc' = "initialize"
            /\ engine' = Append(engine, [op |-> "initialize", cfg |-> 1])
            /\ UNCHANGED result
    /\ UNCHANGED <<prompt, interactive, apiKey, settings, svars>>

\* Lines 72-73: initialize() settles; on success refreshAuth(authType) is called.
Initialized(ok) ==
    /\ pc = "initialize"
    /\ IF ok
       THEN /\ configs' = [configs EXCEPT ![1].initialized = @ + 1]
            /\ engine' = Append(engine, [op |-> "refreshAuth", cfg |-> 1])
            /\ pc' = "refreshAuth"
            /\ UNCHANGED result
       ELSE /\ Throw(<<"initialize failed">>)
            /\ UNCHANGED <<configs, engine>>
    /\ UNCHANGED <<prompt, interactive, apiKey, settings, svars>>

\* Lines 73-84: refreshAuth settles; then the branch on interactive or
\* process.stdin.isTTY: the question is resolved and the engine is run with
\* the original Config, or the restriction pass is entered.
AuthRefreshed(ok, isTTY, question) ==
    /\ pc = "refreshAuth"
    /\ IF ~ok
       THEN Throw(<<"refreshAuth failed">>) /\ UNCHANGED <<configs, engine>>
       ELSE /\ configs' = [configs EXCEPT ![1].authRefreshed = TRUE]
            /\ IF interactive \/ isTTY
               THEN LET q == IF Trim(prompt) # <<>> THEN Trim(prompt)
                             ELSE IF question.some THEN Trim(question.val) ELSE <<>>
                    IN  IF q = <<>>
                        THEN Throw(<<"Aucune question fournie.">>) /\ UNCHANGED engine
                        ELSE /\ engine' = Append(engine,
                                    [op |-> "runNonInteractive", cfg |-> 1,
                                     line |-> 80, input |-> q])
                             /\ pc' = "runInteractive"
                             /\ UNCHANGED result
               ELSE pc' = "restrict" /\ UNCHANGED <<engine, result>>
    /\ UNCHANGED <<prompt, interactive, apiKey, settings, svars>>

\* Lines 80-81: the run of the interactive branch settles (no try around it).
InteractiveRan(ok) ==
    /\ pc = "runInteractive"
    /\ IF ok THEN Return("Reponse interactive generee.")
       ELSE Throw(<<"engine failed">>)
    /\ UNCHANGED <<prompt, interactive, apiKey, settings, configs, engine, svars>>

\* Lines 100-140 and 145: applyNonInteractiveRestrictions up to its await.
\* Not YOLO: merged settings with the augmented exclusions go to
\* loadCliConfig. YOLO: the original Config is initialized once more.
Restrict ==
    /\ pc = "restrict"
    /\ IF configs[1].approvalMode # "yolo"
       THEN pc' = "restrictLoad" /\ UNCHANGED engine
       ELSE /\ pc' = "restrictInit"
            /\ engine' = Append(engine, [op |-> "initialize", cfg |-> 1])
    /\ UNCHANGED <<prompt, interactive, apiKey, settings, configs, result, svars>>

\* Lines 140-141: the restricted Config arrives and is initialized.
RestrictedLoaded ==
    /\ pc = "restrictLoad"
    /\ LET merged == [settings EXCEPT
                         !.excludeTools = Some(RestrictedExcludeTools(settings))]
       IN configs' = Append(configs,
              LoadCliConfig(merged,
                  IF settings.model # "" THEN settings.model ELSE "gemini-1.5-flash",
                  "yolo"))
    /\ engine' = Append(engine, [op |-> "initialize", cfg |-> 2])
    /\ pc' = "restrictInit"
    /\ UNCHANGED <<prompt, interactive, apiKey, settings, result, svars>>

\* Lines 141-146 and 84-88: the pass's initialize() settles; its failure
\* leaves generateGemini outside the try, its success hands finalConfig to
\* runNonInteractive.
RestrictInitialized(ok) ==
    /\ pc = "restrictInit"
    /\ LET final == Len(configs)
       IN IF ok
          THEN /\ configs' = [configs EXCEPT ![final].initialized = @ + 1]
               /\ engine' = Append(engine,
                      [op |-> "runNonInteractive", cfg |-> final,
                       line |-> 88, input |-> prompt])
               /\ pc' = "runNonInteractive"
               /\ UNCHANGED result
          ELSE /\ Throw(<<"initialize failed">>)
               /\ UNCHANGED <<configs, engine>>
    /\ UNCHANGED <<prompt, interactive, apiKey, settings, svars>>

\* Lines 88-92: the run settles inside the try.
NonInteractiveRan(ok) ==
    /\ pc = "runNonInteractive"
    /\ IF ok THEN Return("Reponse non-interactive generee.")
       ELSE Throw(<<"Echec de generation Gemini : ", "Error: ", "engine failed">>)
    /\ UNCHANGED <<prompt, interactive, apiKey, settings, configs, engine, svars>>

\* loadSettings(cwd) answers with any merged model, exclusion list (or
\* none) and list of structural errors.
LoadSettingsAndStart ==
    /\ pc = "start"
    /\ \E model \in SettingsModels, ne \in 0..MaxErrs, nx \in 0..MaxExcl :
          \E errors \in [1..ne -> SettingsErrors], tools \in [1..nx -> Tools] :
              \E excludeTools \in {None, Some(tools)} :
                  Start([model |-> model, excludeTools |-> excludeTools,
                         errors |-> errors])

Questions == {None, Some(<<" ">>), Some(<<"h">>)}

RNext ==
    \/ LoadSettingsAndStart
    \/ \E mode \in ApprovalModes, err \in {None, Some(<<"Invalid auth method selected.">>)} :
          ConfigLoaded(mode, err)
    \/ \E ok \in BOOLEAN : Initialized(ok)
    \/ \E ok \in BOOLEAN, isTTY \in BOOLEAN, question \in Questions :
          AuthRefreshed(ok, isTTY, question)
    \/ \E ok \in BOOLEAN : InteractiveRan(ok)
    \/ Restrict
    \/ RestrictedLoaded
    \/ \E ok \in BOOLEAN : RestrictInitialized(ok)
    \/ \E ok \in BOOLEAN : NonInteractiveRan(ok)

RunnerInit == SIdle /\ RInit

SpecRunner == RunnerInit /\ [][RNext]_vars

\* --------------------------------------------------------- specifications
\* Loader i fulfils with the commands named ns, or rejects; the loaders of
\* one call return MaxCmds commands at most.
SettleAny(c, i) ==
    /\ calls[c].promises[i].status = "pending"
    /\ \/ \E k \in 0..Room(calls[c]) : \E ns \in [1..k -> Names] :
             Settle(c, i, Fulfilled(LoaderValue(i, ns)))
       \/ Settle(c, i, Rejected)

\* The loading protocol alone: no consumer touches the returned array.
LNext ==
    \/ \E t \in 0..loaders : LoadCommands(t)
    \/ \E c \in 1..Len(calls), i \in 1..loaders : SettleAny(c, i)
    \/ \E c \in 1..Len(calls) : Publish(c)

\* The state after new CommandService(loaders), generateGemini not running.
Init == SInit /\ RIdle

SpecLoad == Init /\ [][LNext]_vars

SNext ==
    \/ LNext
    \/ \E n \in Names : Push([name |-> n, src |-> 0])

Spec == Init /\ [][SNext]_vars

\* The service of the override test: three loaders returning two commands,
\* none, and two commands, under any names of ScenarioNames.
ScenarioNames == {"a", "b", "c"}
ScenarioShape == <<{1, 2}, {}, {1, 2}>>

ScenarioInit ==
    /\ loaders = Len(ScenarioShape)
    /\ commands = <<>>
    /\ frozen = FALSE
    /\ calls = <<>>
    /\ mutation = "none"
    /\ RIdle

SettleScenario(c, i) ==
    /\ calls[c].promises[i].status = "pending"
    /\ \/ \E ns \in [ScenarioShape[i] -> ScenarioNames] :
             Settle(c, i, Fulfilled(LoaderValue(i, ns)))
       \/ Settle(c, i, Rejected)

ScenarioNext ==
    \/ \E t \in 0..loaders : LoadCommands(t)
    \/ \E c \in 1..Len(calls), i \in 1..loaders : SettleScenario(c, i)
    \/ \E c \in 1..Len(calls) : Publish(c)

SpecScenario == ScenarioInit /\ [][ScenarioNext]_vars

\* Overlapping calls: loadCommands() is invoked whether or not earlier calls
\* have finished. The call records which calls were in progress at that time.
OverlapInit ==
    /\ loaders = OverlapLoaders
    /\ commands = <<>>
    /\ frozen = FALSE
    /\ calls = <<>>
    /\ mutation = "none"
    /\ RIdle

LoadCommandsOverlap(threw) ==
    /\ Len(calls) < MaxCalls
    /\ calls' = Append(calls, NewCall(threw) @@
                    [during |-> {c \in 1..Len(calls) : ~Finished(c)}])
    /\ mutation' = "none"
    /\ UNCHANGED <<loaders, commands, frozen, rvars>>

\* Loader i of call c fulfils with one command, or rejects.
SettleOverlap(c, i) ==
    /\ calls[c].promises[i].status = "pending"
    /\ \/ \E n \in Names : Settle(c, i, Fulfilled(LoaderValue(i, <<n>>)))
       \/ Settle(c, i, Rejected)

OverlapNext ==
    \/ \E t \in 0..loaders : LoadCommandsOverlap(t)
    \/ \E c \in 1..Len(calls), i \in 1..loaders : SettleOverlap(c, i)
    \/ \E c \in 1..Len(calls) : Publish(c)

SpecOverlap == OverlapInit /\ [][OverlapNext]_vars

\* ------------------------------------------- CommandService: properties
\* What the loaders of a call produced, read off the promises themselves.
Succeeded(call) == {i \in DOMAIN call.promises : call.promises[i].status = "fulfilled"}
Occ(call) == UNION {{<<i, p>> : p \in 1..Len(call.promises[i].value)} : i \in Succeeded(call)}
At(call, o) == call.promises[o[1]].value[o[2]]
Before(o1, o2) == o1[1] < o2[1] \/ (o1[1] = o2[1] /\ o1[2] < o2[2])
Produced(call) == {At(call, o) : o \in Occ(call)}
NamesProduced(call) == {cmd.name : cmd \in Produced(call)}
OccOf(call, x) == {o \in Occ(call) : At(call, o).name = x}
FirstOcc(call, x) == CHOOSE o \in OccOf(call, x) : \A q \in OccOf(call, x) : ~Before(q, o)
LastOcc(call, x) == CHOOSE o \in OccOf(call, x) : \A q \in OccOf(call, x) : ~Before(o, q)
Catalog == {commands[k] : k \in 1..Len(commands)}
CatalogNames == {cmd.name : cmd \in Catalog}
Producers(call, x) == {i \in Succeeded(call) : \E o \in OccOf(call, x) : o[1] = i}
Failed(call) ==
    {i \in DOMAIN call.promises : call.promises[i].status = "rejected" \/ i = call.threw}

\* C1: whatever subset of the loaders fails, loadCommands() never rejects, and
\* once it is over the catalog holds exactly the de-duplicated union of what
\* the loaders that succeeded produced.
C1_FailureIsolated ==
    \A c \in 1..Len(calls) :
        /\ calls[c].pc # "rejected"
        /\ calls[c].pc = "resolved" =>
              /\ CatalogNames = NamesProduced(calls[c])
              /\ Catalog \subseteq Produced(calls[c])
              /\ Len(commands) = Cardinality(CatalogNames)

\* C2: when two successful loaders both produce a command named x, after
\* loadCommands() the catalog has exactly one x, it is the later loader's, and
\* it stands where x was first seen.
C2_LaterLoaderWins ==
    \A c \in 1..Len(calls) : \A x \in Names :
        LET call == calls[c]
            P == Producers(call, x)
            ahead == {y \in NamesProduced(call) :
                        Before(FirstOcc(call, y), FirstOcc(call, x))}
        IN  (Finished(c) /\ Cardinality(P) >= 2) =>
              /\ Cardinality({k \in 1..Len(commands) : commands[k].name = x}) = 1
              /\ \A k \in 1..Len(commands) :
                    commands[k].name = x =>
                      /\ commands[k].src = CHOOSE i \in P : \A j \in P : j <= i
                      /\ k = Cardinality(ahead) + 1

\* C3: every attempt to push onto the array getCommands() returned raises and
\* leaves the catalog as it was, also before the first loadCommands().
C3_MutationRaises ==
    [][(\E n \in Names : Push([name |-> n, src |-> 0]))
          => (mutation' = "threw" /\ commands' = commands)]_vars

\* C4: once a loadCommands() call is over, the catalog is the merge of that
\* call's loader results alone: nothing an earlier call produced survives.
C4_LastCallReplaces ==
    \A c \in 1..Len(calls) :
        Finished(c) =>
          /\ Catalog \subseteq Produced(calls[c])
          /\ \A i \in Succeeded(calls[c]) : calls[c].pc = "resolved" =>
                \A p \in 1..Len(calls[c].promises[i].value) :
                    calls[c].promises[i].value[p].name \in CatalogNames

\* C5: the published catalog is fixed, content and order, by the registration
\* order and the per-loader outcomes, whatever the order of settling: each
\* entry is the last occurrence of its name, entries stand in the order of the
\* first occurrences, occurrences counted loader by loader as registered.
C5_SettleOrderIrrelevant ==
    \A c \in 1..Len(calls) :
        LET call == calls[c]
        IN  call.pc = "resolved" =>
              /\ Len(commands) = Cardinality(NamesProduced(call))
              /\ \A k \in 1..Len(commands) :
                    /\ commands[k].name \in NamesProduced(call)
                    /\ commands[k] = At(call, LastOcc(call, commands[k].name))
              /\ \A j, k \in 1..Len(commands) :
                    j < k => Before(FirstOcc(call, commands[j].name),
                                    FirstOcc(call, commands[k].name))

\* A call was published after its loaders settled out of registration order,
\* with two loaders producing commands.
C5_Witness ==
    \E c \in 1..Len(calls) :
        /\ calls[c].pc = "resolved"
        /\ calls[c].outOfOrder
        /\ Len(commands) = 2
        /\ Cardinality(Producers(calls[c], commands[1].name)) = 2

\* ------------------------------------------- generateGemini: properties
Range(seq) == {seq[k] : k \in 1..Len(seq)}
Destructive == {ShellTool, EditTool, WriteFileTool}
RunsAt(line) ==
    {k \in 1..Len(engine) : engine[k].op = "runNonInteractive" /\ engine[k].line = line}
KeyMissing == ~apiKey.some \/ apiKey.val = ""

\* C6: on the non-interactive path, when the initialized Config is not in
\* YOLO mode, the Config given to runNonInteractive excludes exactly the
\* shell, edit and write tools plus what the settings excluded, each once.
C6_RestrictedExclusions ==
    \A k \in RunsAt(88) :
        configs[1].approvalMode # "yolo" =>
            LET ex == configs[engine[k].cfg].excludeTools
            IN  /\ Destructive \subseteq Range(ex)
                /\ Range(OrEmpty(settings.excludeTools)) \subseteq Range(ex)
                /\ Range(ex) = Destructive \cup Range(OrEmpty(settings.excludeTools))
                /\ Cardinality(Range(ex)) = Len(ex)

\* The restricted Config reached runNonInteractive although the settings
\* excluded no tool at all.
C6_Witness ==
    /\ RunsAt(88) # {}
    /\ configs[1].approvalMode # "yolo"
    /\ ~settings.excludeTools.some

\* C7: on either branch, a Config that is not in YOLO mode reaches the engine
\* only with the shell, edit and write tools excluded.
C7_DestructiveToolsDisabled ==
    \A k \in RunsAt(80) \cup RunsAt(88) :
        configs[1].approvalMode # "yolo" =>
            Destructive \subseteq Range(configs[engine[k].cfg].excludeTools)

\* C8 as stated: with GEMINI_API_KEY absent or empty the call rejects with
\* the error naming the settings path and the variable, whatever the
\* settings source returned.
C8_NoCredentialRejects ==
    (KeyMissing /\ pc # "start") =>
        /\ result.status = "rejected"
        /\ USER_SETTINGS_PATH \in Range(result.value)
        /\ "GEMINI_API_KEY" \in Range(result.value)

\* C8 amended: with GEMINI_API_KEY absent or empty and a settings source
\* that reports no structural error, the call rejects with the error naming
\* the settings path and the variable, for every prompt and interactive hint.
C8_NoCredentialRejectsCleanSettings ==
    (KeyMissing /\ pc # "start" /\ settings.errors = <<>>) =>
        /\ pc = "done"
        /\ result.status = "rejected"
        /\ USER_SETTINGS_PATH \in Range(result.value)
        /\ "GEMINI_API_KEY" \in Range(result.value)

\* The variable is set but empty, the settings are clean, and the call with
\* a real prompt and the interactive hint has been rejected.
C8_Witness ==
    /\ apiKey = Some("")
    /\ pc = "done"
    /\ settings.errors = <<>>
    /\ interactive
    /\ Trim(prompt) # <<>>

\* C9: when the settings source reports errors the call is rejected with one
\* diagnostic holding every error's path and message, and nothing of the
\* engine has been touched: no Config built, no engine call made.
C9_SettingsErrorsAbort ==
    settings.errors # <<>> =>
        /\ pc = "done"
        /\ result.status = "rejected"
        /\ \A k \in 1..Len(settings.errors) :
              \E j \in 1..(Len(result.value) - 2) :
                  /\ result.value[j] = settings.errors[k].path
                  /\ result.value[j + 2] = settings.errors[k].message
        /\ configs = <<>>
        /\ engine = <<>>

\* Two different settings files were in error and the call has been rejected.
C9_Witness ==
    /\ pc = "done"
    /\ Len(settings.errors) = 2
    /\ settings.errors[1] # settings.errors[2]
    /\ apiKey = Some("key")

\* The loaders answered [{a, b}, {}, {b', c}] and the call was published.
ScenarioABC(call) ==
    /\ call.pc = "resolved"
    /\ call.promises = <<Fulfilled(LoaderValue(1, <<"a", "b">>)),
                         Fulfilled(<<>>),
                         Fulfilled(LoaderValue(3, <<"b", "c">>))>>

\* C11 as stated: for loaders [{a, b}, {}, {b', c}] the published catalog
\* has length 3 and iterates as [a, c, b'].
C11_ScenarioOrderACB ==
    \A k \in 1..Len(calls) :
        ScenarioABC(calls[k]) =>
            commands = <<[name |-> "a", src |-> 1], [name |-> "c", src |-> 3],
                         [name |-> "b", src |-> 3]>>

\* C11 amended: for loaders [{a, b}, {}, {b', c}] the published catalog has
\* length 3 and iterates as [a, b', c]: b' stands where b was first seen.
C11_ScenarioOrderABC ==
    \A k \in 1..Len(calls) :
        ScenarioABC(calls[k]) =>
            /\ Len(commands) = 3
            /\ commands = <<[name |-> "a", src |-> 1], [name |-> "b", src |-> 3],
                            [name |-> "c", src |-> 3]>>

\* The scenario has been loaded and published, the third loader having
\* settled first.
C11_Witness ==
    \E k \in 1..Len(calls) : ScenarioABC(calls[k]) /\ calls[k].outOfOrder

\* seq is the complete merged result of the call: one command per name
\* produced, the last one produced under that name, in first-seen order.
CompleteResult(seq, call) ==
    /\ Len(seq) = Cardinality(NamesProduced(call))
    /\ {seq[k].name : k \in 1..Len(seq)} = NamesProduced(call)
    /\ \A k \in 1..Len(seq) : seq[k] = At(call, LastOcc(call, seq[k].name))
    /\ \A j, k \in 1..Len(seq) :
          j < k => Before(FirstOcc(call, seq[j].name), FirstOcc(call, seq[k].name))

\* C12: at every moment, whatever calls are in progress and however their
\* loaders settle, the catalog is the initial empty one or the complete
\* merged result of exactly one loadCommands() invocation.
C12_AtomicPublication ==
    \/ commands = <<>> /\ ~frozen
    \/ \E c \in 1..Len(calls) :
          calls[c].pc = "resolved" /\ CompleteResult(commands, calls[c])

\* A call has published while an earlier call, still in progress when it was
\* invoked, has some loaders settled and others pending.
C12_Witness ==
    \E c2 \in 1..Len(calls) :
        /\ calls[c2].pc = "resolved"
        /\ commands # <<>>
        /\ \E c1 \in calls[c2].during :
              /\ calls[c1].pc = "awaiting"
              /\ \E i, j \in 1..loaders :
                    /\ calls[c1].promises[i].status = "fulfilled"
                    /\ calls[c1].promises[i].value # calls[c2].promises[i].value
                    /\ calls[c1].promises[j].status = "pending"

\* C13: when the last call was invoked while another was in progress and the
\* loaders answered the two differently, then once every call has finished
\* the catalog is the complete result of the call invoked last.
C13_LastInvokedWins ==
    LET last == Len(calls) IN
    (/\ \A c \in 1..Len(calls) : Finished(c)
     /\ last >= 2
     /\ calls[last].pc = "resolved"
     /\ \E c1 \in calls[last].during :
           /\ calls[c1].pc = "resolved"
           /\ calls[c1].promises # calls[last].promises)
        => CompleteResult(commands, calls[last])

\* C14: every Config handed to an execution entry point has completed
\* initialize() and refreshAuth(authType) before the dispatch, the original
\* one and the one the restriction pass builds.
C14_ConfigReadyAtDispatch ==
    \A k \in RunsAt(80) \cup RunsAt(88) :
        /\ configs[engine[k].cfg].initialized >= 1
        /\ configs[engine[k].cfg].authRefreshed

\* C15: the branch taken on the interactive hint or a TTY dispatches to the
\* interactive entry point; runNonInteractive is invoked on the other branch
\* only.
C15_InteractiveDispatch ==
    /\ RunsAt(80) = {}
    /\ (pc = "done" /\ result = [status |-> "resolved",
                                  value |-> <<"Reponse interactive generee.">>])
          => \E k \in 1..Len(engine) : engine[k].op = "runInteractive"

\* The restriction pass has asked the engine to initialize a Config: the
\* second initialize of the call.
InRestrictionPass ==
    Cardinality({k \in 1..Len(engine) : engine[k].op = "initialize"}) >= 2

\* C16: on the non-interactive path a failure of the engine, in the
\* restriction pass's initialize or in runNonInteractive, reaches the caller
\* only wrapped, with the original detail in the message.
C16_EngineFailureWrapped ==
    (InRestrictionPass /\ pc = "done" /\ result.status = "rejected") =>
        /\ Len(result.value) = 3
        /\ result.value[1] = "Echec de generation Gemini : "
        /\ result.value[3] \in {"initialize failed", "engine failed"}

\* C17: with no model in the settings, every Config built in one call
\* carries one and the same fallback model.
C17_OneFallbackModel ==
    settings.model = "" =>
        \A i, j \in 1..Len(configs) : configs[i].model = configs[j].model

\* C10: no two commands of the catalog share a name, and no loadCommands()
\* call is rejected on account of a duplicate (only a loader that throws
\* inside the fan-out rejects it).
C10_NamesUnique ==
    /\ \A j, k \in 1..Len(commands) : j # k => commands[j].name # commands[k].name
    /\ \A c \in 1..Len(calls) : calls[c].pc = "rejected" => calls[c].threw > 0

\* A published catalog whose loaders returned a name twice in one list and
\* the same name from another loader.
C10_Witness ==
    \E c \in 1..Len(calls) :
        /\ calls[c].pc = "resolved"
        /\ \E x \in Names :
              /\ Cardinality(Producers(calls[c], x)) >= 2
              /\ \E i \in Succeeded(calls[c]) :
                    Cardinality({o \in OccOf(calls[c], x) : o[1] = i}) >= 2
        /\ Len(commands) >= 1

====
